---------------------------- MODULE Spec2Model ----------------------------
(***************************************************************************)
(* photo-organizer: a directory tree of photos kept against a persisted    *)
(* index file (path, original file name, content hash per photo).          *)
(*                                                                         *)
(* Strings are modelled as sequences of atomic tokens ("a.jpg" is          *)
(* <<"a", ".", "jpg">>), so that replacing a placeholder of the naming     *)
(* template, taking a file extension and lower-casing are computations.    *)
(* A path is the sequence of its components, the file name last.           *)
(***************************************************************************)
EXTENDS Integers, Sequences, FiniteSets, TLC

VARIABLES
    disk,        \* the photo files below the collection root: path -> file
    index_file,  \* the persisted index file: Some(index), None before init
    last,        \* what the command that has just run did and reported, NoCmd
                 \* once its process has exited
    nchanges,    \* how many changes the user has made to the file system
    history      \* an observer's record of the names under which photos were
                 \* first added, None in the runs where none is kept

vars == <<disk, index_file, last, nchanges, history>>

----------------------------------------------------------------------------
(* Bounds of the model *)

\* the user makes at most this many changes to the file system
MaxChanges == 4

\* the same, in the runs where photos are also renamed by the rename command
MaxChangesRename == 2

----------------------------------------------------------------------------
(* Strings, paths and their order *)

\* Option<T>: None is the empty sequence, Some(x) the sequence <<x>>
None == <<>>
Some(x) == <<x>>
IsSome(o) == o # <<>>
Unwrap(o) == o[1]

\* byte order of the tokens that occur in file names (ASCII: "." < digits <
\* upper case < "_" < lower case)
TokOrder ==
    << ".", "123210", "20220507", "IMG", "JPEG", "JPG", "VID", "_",
       "a", "b", "d", "jpeg", "jpg", "mp4", "png" >>

TokRank(t) == CHOOSE i \in 1..Len(TokOrder) : TokOrder[i] = t

\* s < t, lexicographically (a proper prefix is smaller)
RECURSIVE StrLess(_, _)
StrLess(s, t) ==
    IF t = <<>> THEN FALSE
    ELSE IF s = <<>> THEN TRUE
    ELSE IF s[1] = t[1] THEN StrLess(Tail(s), Tail(t))
    ELSE TokRank(s[1]) < TokRank(t[1])

\* Ord for PathBuf: component by component
RECURSIVE PathLess(_, _)
PathLess(p, q) ==
    IF q = <<>> THEN FALSE
    ELSE IF p = <<>> THEN TRUE
    ELSE IF p[1] = q[1] THEN PathLess(Tail(p), Tail(q))
    ELSE StrLess(p[1], q[1])

\* Path::file_name, Path::parent, Path::join, Path::starts_with
file_name(p) == p[Len(p)]
parent(p) == SubSeq(p, 1, Len(p) - 1)
join(dir, name) == Append(dir, name)
starts_with(p, dir) ==
    Len(dir) <= Len(p) /\ SubSeq(p, 1, Len(dir)) = dir

Range(s) == { s[i] : i \in 1..Len(s) }

\* the elements of a set of paths as a sequence in ascending path order
RECURSIVE SortedPaths(_)
SortedPaths(S) ==
    IF S = {} THEN <<>>
    ELSE LET m == CHOOSE p \in S : \A q \in S \ {p} : PathLess(p, q)
         IN  <<m>> \o SortedPaths(S \ {m})

\* every sequence that lists each element of S once
RECURSIVE Orders(_)
Orders(S) ==
    IF S = {} THEN { <<>> }
    ELSE UNION { { <<x>> \o o : o \in Orders(S \ {x}) } : x \in S }

\* str::to_lowercase on each token
LowerTok(t) ==
    CASE t = "JPG"  -> "jpg"
      [] t = "JPEG" -> "jpeg"
      [] t = "IMG"  -> "img"
      [] t = "VID"  -> "vid"
      [] OTHER      -> t

to_lowercase(s) == [ i \in 1..Len(s) |-> LowerTok(s[i]) ]

\* str::replace: every occurrence of the token pat becomes the string by
RECURSIVE replace(_, _, _)
replace(s, pat, by) ==
    IF s = <<>> THEN <<>>
    ELSE (IF s[1] = pat THEN by ELSE <<s[1]>>) \o replace(Tail(s), pat, by)

\* Path::extension: what follows the last "." of the file name; None when
\* there is no "." or the only "." starts the name
LastDot(name) ==
    LET dots == { i \in 1..Len(name) : name[i] = "." }
    IN  IF dots = {} THEN 0
        ELSE CHOOSE i \in dots : \A j \in dots : j <= i

extension(p) ==
    LET name == file_name(p)
        i == LastDot(name)
    IN  IF i <= 1 THEN None ELSE Some(SubSeq(name, i + 1, Len(name)))

----------------------------------------------------------------------------
(* The file system *)

\* File contents.  The EXIF timestamp is part of the bytes: c1 and c2 are
\* different photos taken in the same second, c3 carries no timestamp.
Contents == { "c1", "c2", "c3" }

\* a file that cannot be opened (no permission): nothing reads its bytes
Unreadable == "unreadable"

\* a photo taken at another time; it occurs where only names are computed
LaterPhoto == "c4"

\* Sha256 + hex::encode: distinct contents have distinct digests
Sha256Hex(c) ==
    CASE c = "c1" -> "9f86d0"
      [] c = "c2" -> "60303a"
      [] c = "c3" -> "fd61a0"
      [] c = "c4" -> "2c6245"

\* EXIF DateTime of the content, None when the tag is absent
ExifDateTime(c) ==
    CASE c = "c1" -> Some("2022:05:07 12:32:10")
      [] c = "c2" -> Some("2022:05:07 12:32:10")
      [] c = "c3" -> None
      [] c = "c4" -> Some("2023:12:31 23:59:58")

FileRec == Contents \cup { Unreadable }

RootDir == <<>>
SubDir == << <<"d">> >>
Dirs == { RootDir, SubDir }

\* the names a user gives to files
UserNames == { <<"a", ".", "jpg">>, <<"b", ".", "JPEG">> }

\* the places where the user puts files
AllPaths ==
    { join(RootDir, n) : n \in UserNames } \cup { join(SubDir, <<"a", ".", "jpg">>) }

Exists(fs, p) == p \in DOMAIN fs

\* fs with file f put at path p
PutFile(fs, p, f) ==
    [ q \in (DOMAIN fs) \cup {p} |-> IF q = p THEN f ELSE fs[q] ]

\* fs without the file at path p
DropFile(fs, p) == [ q \in (DOMAIN fs) \ {p} |-> fs[q] ]

\* std::fs::rename: the file at from is moved to to, replacing what is there
FsRename(fs, from, to) == PutFile(DropFile(fs, from), to, fs[from])

----------------------------------------------------------------------------
(* The index *)

\* UserConfig of Index::default().  file_types is a BTreeMap: its entries
\* are kept in ascending order of the type tag.
DefaultUserConfig ==
    [ file_naming_scheme |->
          << "%Y%m%d", "_", "%H%M%S", "_", "%{type}", ".", "%{fileextension}" >>,
      file_types |->
          << [ tag |-> <<"IMG">>, exts |-> << <<"jpg">>, <<"jpeg">>, <<"png">> >> ],
             [ tag |-> <<"VID">>, exts |-> << <<"mp4">> >> ] >> ]

\* Index::default()
DefaultIndex == [ user_config |-> DefaultUserConfig, photos |-> <<>> ]

IndexEntry(filepath, orig_filename, filehash) ==
    [ filepath |-> filepath, orig_filename |-> orig_filename, filehash |-> filehash ]

\* sort_unstable_by_key(|e| e.filepath): ascending by path.  Entries with
\* equal paths may come out in either order; one of them is taken.
RECURSIVE SortByFilepath(_)
SortByFilepath(v) ==
    IF v = <<>> THEN <<>>
    ELSE LET i == CHOOSE k \in 1..Len(v) :
                      \A j \in 1..Len(v) : ~PathLess(v[j].filepath, v[k].filepath)
             rest == [ j \in 1..(Len(v) - 1) |-> IF j < i THEN v[j] ELSE v[j + 1] ]
         IN  <<v[i]>> \o SortByFilepath(rest)

\* write_index_file: the index as it is written (sorted by path)
WrittenIndex(index) == [ index EXCEPT !.photos = SortByFilepath(index.photos) ]

----------------------------------------------------------------------------
(* The collection *)

\* calc_photo_hash: Err when the file cannot be opened
calc_photo_hash(fs, filepath) ==
    IF Exists(fs, filepath) /\ fs[filepath] # Unreadable
    THEN [ ok |-> TRUE, hash |-> Sha256Hex(fs[filepath]) ]
    ELSE [ ok |-> FALSE, hash |-> "" ]

\* NaiveDateTime::parse_from_str(s, "%Y:%m:%d %H:%M:%S")
ParseDateTime(s) ==
    CASE s = "2022:05:07 12:32:10" ->
             [ year |-> 2022, month |-> 5, day |-> 7, hour |-> 12, min |-> 32, sec |-> 10 ]
      [] s = "2023:12:31 23:59:58" ->
             [ year |-> 2023, month |-> 12, day |-> 31, hour |-> 23, min |-> 59, sec |-> 58 ]

\* a number below 100 as two decimal digits, a year as four
TwoDigits(n) ==
    CASE n = 5 -> "05" [] n = 7 -> "07" [] n = 10 -> "10" [] n = 12 -> "12" [] n = 32 -> "32"
      [] n = 23 -> "23" [] n = 31 -> "31" [] n = 58 -> "58" [] n = 59 -> "59"

FourDigits(n) == CASE n = 2022 -> "2022" [] n = 2023 -> "2023"

\* concatenation of digit strings into one token
Concat3(a, b, c) ==
    CASE <<a, b, c>> = <<"2022", "05", "07">> -> "20220507"
      [] <<a, b, c>> = <<"12", "32", "10">> -> "123210"
      [] <<a, b, c>> = <<"2023", "12", "31">> -> "20231231"
      [] <<a, b, c>> = <<"23", "59", "58">> -> "235958"

\* read_exif_data: Err when the file cannot be opened, else the metadata
\* (only the timestamp is used by the naming)
read_exif_data(fs, filepath) ==
    IF Exists(fs, filepath) /\ fs[filepath] # Unreadable
    THEN LET dt == ExifDateTime(fs[filepath])
         IN  [ ok |-> TRUE,
               timestamp_local |->
                   IF IsSome(dt) THEN Some(ParseDateTime(Unwrap(dt))) ELSE None ]
    ELSE [ ok |-> FALSE, timestamp_local |-> None ]

\* NaiveDateTime::format: the strftime directives of the string expanded
format(ts, s) ==
    replace(
        replace(s, "%Y%m%d",
                << Concat3(FourDigits(ts.year), TwoDigits(ts.month), TwoDigits(ts.day)) >>),
        "%H%M%S",
        << Concat3(TwoDigits(ts.hour), TwoDigits(ts.min), TwoDigits(ts.sec)) >>)

\* file_types.iter().find(..): the first entry, in key order, that lists ext
FindFileType(file_types, ext) ==
    LET hits == { i \in 1..Len(file_types) : ext \in Range(file_types[i].exts) }
    IN  IF hits = {} THEN None
        ELSE Some(file_types[CHOOSE i \in hits : \A j \in hits : i <= j].tag)

CanonErr == [ ok |-> FALSE, name |-> <<>> ]

\* get_canonical_photo_filename that gives the template with the date left
\* unexpanded when the timestamp is missing
get_canonical_photo_filename_NoDate(fs, filepath, user_config) ==
    LET exif_data == read_exif_data(fs, filepath)
    IN  IF ~exif_data.ok THEN CanonErr
        ELSE IF ~IsSome(extension(filepath)) THEN CanonErr
        ELSE
          LET file_extension == to_lowercase(Unwrap(extension(filepath)))
              file_type == FindFileType(user_config.file_types, file_extension)
          IN  IF ~IsSome(file_type) THEN CanonErr
              ELSE
                LET n1 == replace(user_config.file_naming_scheme, "%{type}",
                                  Unwrap(file_type))
                    n2 == replace(n1, "%{fileextension}",
                                  IF file_extension = <<"jpeg">> THEN <<"jpg">>
                                  ELSE file_extension)
                IN  [ ok |-> TRUE,
                      name |-> IF IsSome(exif_data.timestamp_local)
                               THEN format(Unwrap(exif_data.timestamp_local), n2)
                               ELSE n2 ]

\* get_canonical_photo_filename without the rule that rewrites jpeg to jpg
get_canonical_photo_filename_NoJpegRule(fs, filepath, user_config) ==
    LET exif_data == read_exif_data(fs, filepath)
    IN  IF ~exif_data.ok THEN CanonErr
        ELSE IF ~IsSome(exif_data.timestamp_local) THEN CanonErr
        ELSE IF ~IsSome(extension(filepath)) THEN CanonErr
        ELSE
          LET file_extension == to_lowercase(Unwrap(extension(filepath)))
              file_type == FindFileType(user_config.file_types, file_extension)
          IN  IF ~IsSome(file_type) THEN CanonErr
              ELSE
                LET n1 == replace(user_config.file_naming_scheme, "%{type}",
                                  Unwrap(file_type))
                    n2 == replace(n1, "%{fileextension}", file_extension)
                IN  [ ok |-> TRUE,
                      name |-> format(Unwrap(exif_data.timestamp_local), n2) ]

\* get_canonical_photo_filename
get_canonical_photo_filename(fs, filepath, user_config) ==
    LET exif_data == read_exif_data(fs, filepath)
    IN  IF ~exif_data.ok THEN CanonErr
        ELSE IF ~IsSome(exif_data.timestamp_local) THEN CanonErr
        ELSE IF ~IsSome(extension(filepath)) THEN CanonErr
        ELSE
          LET file_extension == to_lowercase(Unwrap(extension(filepath)))
              file_type == FindFileType(user_config.file_types, file_extension)
          IN  IF ~IsSome(file_type) THEN CanonErr
              ELSE
                LET n1 == replace(user_config.file_naming_scheme, "%{type}",
                                  Unwrap(file_type))
                    n2 == replace(n1, "%{fileextension}",
                                  IF file_extension = <<"jpeg">> THEN <<"jpg">>
                                  ELSE file_extension)
                IN  [ ok |-> TRUE,
                      name |-> format(Unwrap(exif_data.timestamp_local), n2) ]

\* scan_photo_collection: the files whose lower-cased extension some file
\* type lists, sorted by path
scan_photo_collection(config, fs) ==
    LET filter_file_extensions ==
            UNION { Range(config.file_types[i].exts) : i \in 1..Len(config.file_types) }
    IN  SortedPaths({ p \in DOMAIN fs :
                        /\ IsSome(extension(p))
                        /\ to_lowercase(Unwrap(extension(p))) \in filter_file_extensions })

\* get_photos_in_subdir, and the filter of rename_photos
get_photos_in_subdir(photos, subdir, recursive) ==
    LET In(p) == IF recursive THEN starts_with(p, subdir) ELSE parent(p) = subdir
    IN  SelectSeq(photos, In)

----------------------------------------------------------------------------
(* update / update_index: reconciliation of the index with the live photos *)

\* position with the comparison of the hashes left out
position_AnyEntry(v, hash) == IF v = <<>> THEN 0 ELSE 1

\* Iterator::position: the first entry with that hash, 0 when there is none
position(v, hash) ==
    LET hits == { i \in 1..Len(v) : v[i].filehash = hash }
    IN  IF hits = {} THEN 0 ELSE CHOOSE i \in hits : \A j \in hits : i <= j

\* swap_remove that leaves the entry in the vector
swap_remove_KeepsEntry(v, i) == v

\* Vec::swap_remove: the last entry takes the place of the removed one
swap_remove(v, i) ==
    [ j \in 1..(Len(v) - 1) |-> IF j = i THEN v[Len(v)] ELSE v[j] ]

\* UpdateStep with the renamed entry pushed under its old path
UpdateStep_KeepsOldPath(fs, st, added_photo) ==
    LET h == calc_photo_hash(fs, added_photo)
        renamed_photo_index == position(st.deleted_photos, h.hash)
    IN  IF ~h.ok THEN [ st EXCEPT !.ok = FALSE, !.new_photo_found = TRUE,
                                   !.hashed = @ \cup {added_photo} ]
        ELSE IF renamed_photo_index # 0
        THEN LET renamed_photo == st.deleted_photos[renamed_photo_index]
             IN  [ st EXCEPT
                     !.new_photo_found = TRUE,
                     !.hashed = @ \cup {added_photo},
                     !.deleted_photos = swap_remove(st.deleted_photos, renamed_photo_index),
                     !.renamed = Append(st.renamed, <<renamed_photo.filepath, added_photo>>),
                     !.photos = Append(st.photos, renamed_photo) ]
        ELSE [ st EXCEPT
                 !.new_photo_found = TRUE,
                 !.hashed = @ \cup {added_photo},
                 !.added = Append(st.added, added_photo),
                 !.photos = Append(st.photos,
                                   IndexEntry(added_photo, file_name(added_photo), h.hash)) ]

\* UpdateStep with a fresh entry pushed for a renamed photo
UpdateStep_FreshEntry(fs, st, added_photo) ==
    LET h == calc_photo_hash(fs, added_photo)
        renamed_photo_index == position(st.deleted_photos, h.hash)
    IN  IF ~h.ok THEN [ st EXCEPT !.ok = FALSE, !.new_photo_found = TRUE,
                                   !.hashed = @ \cup {added_photo} ]
        ELSE IF renamed_photo_index # 0
        THEN LET renamed_photo == st.deleted_photos[renamed_photo_index]
             IN  [ st EXCEPT
                     !.new_photo_found = TRUE,
                     !.hashed = @ \cup {added_photo},
                     !.deleted_photos = swap_remove(st.deleted_photos, renamed_photo_index),
                     !.renamed = Append(st.renamed, <<renamed_photo.filepath, added_photo>>),
                     !.photos = Append(st.photos,
                                       IndexEntry(added_photo, file_name(added_photo),
                                                  h.hash)) ]
        ELSE [ st EXCEPT
                 !.new_photo_found = TRUE,
                 !.hashed = @ \cup {added_photo},
                 !.added = Append(st.added, added_photo),
                 !.photos = Append(st.photos,
                                   IndexEntry(added_photo, file_name(added_photo), h.hash)) ]

\* one round of the loop over the added paths
UpdateStep(fs, st, added_photo) ==
    LET h == calc_photo_hash(fs, added_photo)
        renamed_photo_index == position(st.deleted_photos, h.hash)
    IN  IF ~h.ok THEN [ st EXCEPT !.ok = FALSE, !.new_photo_found = TRUE,
                                   !.hashed = @ \cup {added_photo} ]
        ELSE IF renamed_photo_index # 0
        THEN LET renamed_photo == st.deleted_photos[renamed_photo_index]
             IN  [ st EXCEPT
                     !.new_photo_found = TRUE,
                     !.hashed = @ \cup {added_photo},
                     !.deleted_photos = swap_remove(st.deleted_photos, renamed_photo_index),
                     !.renamed = Append(st.renamed, <<renamed_photo.filepath, added_photo>>),
                     !.photos = Append(st.photos,
                                       [ renamed_photo EXCEPT !.filepath = added_photo ]) ]
        ELSE [ st EXCEPT
                 !.new_photo_found = TRUE,
                 !.hashed = @ \cup {added_photo},
                 !.added = Append(st.added, added_photo),
                 !.photos = Append(st.photos,
                                   IndexEntry(added_photo, file_name(added_photo), h.hash)) ]

\* the loop: the added paths are visited in the iteration order of a HashSet
\* difference, here the sequence order; the first hashing error ends it
RECURSIVE UpdateLoop(_, _, _)
UpdateLoop(fs, st, order) ==
    IF order = <<>> \/ ~st.ok THEN st
    ELSE UpdateLoop(fs, UpdateStep(fs, st, Head(order)), Tail(order))

\* MissingPaths that takes every indexed path for missing
MissingPaths_AllIndexed(index_photos, photos) ==
    { index_photos[i].filepath : i \in 1..Len(index_photos) }

\* NewPaths that takes every live path for new
NewPaths_AllPhotos(index_photos, photos) == Range(photos)

\* the paths update finds in the index but not among the photos, and the reverse
MissingPaths(index_photos, photos) ==
    { index_photos[i].filepath : i \in 1..Len(index_photos) } \ Range(photos)

NewPaths(index_photos, photos) ==
    Range(photos) \ { index_photos[i].filepath : i \in 1..Len(index_photos) }

\* UpdateStart without the retain_mut that takes the missing entries out
UpdateStart_KeepsMissing(index_photos, photos) ==
    LET deleted_photos_paths == MissingPaths(index_photos, photos)
        IsDeleted(e) == e.filepath \in deleted_photos_paths
    IN  [ ok |-> TRUE,
          new_photo_found |-> FALSE,
          deleted_photos |-> SelectSeq(index_photos, IsDeleted),
          photos |-> index_photos,
          added |-> <<>>,
          renamed |-> <<>>,
          hashed |-> {} ]

\* the start of update: the missing entries are taken out of the index
UpdateStart(index_photos, photos) ==
    LET deleted_photos_paths == MissingPaths(index_photos, photos)
        IsDeleted(e) == e.filepath \in deleted_photos_paths
        IsKept(e) == e.filepath \notin deleted_photos_paths
    IN  [ ok |-> TRUE,
          new_photo_found |-> FALSE,
          deleted_photos |-> SelectSeq(index_photos, IsDeleted),
          photos |-> SelectSeq(index_photos, IsKept),
          added |-> <<>>,
          renamed |-> <<>>,
          hashed |-> {} ]

\* UpdateReturn with the boolean taken from the additions and deletions logged
UpdateReturn_FromReport(st) ==
    [ ok |-> st.ok,
      changed |-> st.ok /\ (st.added # <<>> \/ st.deleted_photos # <<>>),
      photos |-> st.photos,
      added |-> st.added,
      renamed |-> st.renamed,
      hashed |-> st.hashed,
      deleted |-> IF st.ok
                  THEN [ i \in 1..Len(st.deleted_photos) |-> st.deleted_photos[i].filepath ]
                  ELSE <<>> ]

\* the end of update: the entries still missing are logged as deleted and
\* Ok(new_photo_found || !deleted_photos.is_empty()) is returned
UpdateReturn(st) ==
    [ ok |-> st.ok,
      changed |-> st.ok /\ (st.new_photo_found \/ st.deleted_photos # <<>>),
      photos |-> st.photos,
      added |-> st.added,
      renamed |-> st.renamed,
      hashed |-> st.hashed,
      deleted |-> IF st.ok
                  THEN [ i \in 1..Len(st.deleted_photos) |-> st.deleted_photos[i].filepath ]
                  ELSE <<>> ]

\* update(root_dir, index, photos).  order is the iteration order of the
\* added paths.  The result holds index.photos as the call leaves it, the
\* returned boolean (changed) when ok, what was logged and the paths for
\* which calc_photo_hash was called.
update(fs, index_photos, photos, order) ==
    UpdateReturn(UpdateLoop(fs, UpdateStart(index_photos, photos), order))

NoUpdate ==
    [ ok |-> FALSE, changed |-> FALSE, photos |-> <<>>,
      added |-> <<>>, renamed |-> <<>>, deleted |-> <<>>, hashed |-> {} ]

----------------------------------------------------------------------------
(* The checks *)

\* the HashMap of check_for_duplicates: hash -> the entries recorded with it
RECURSIVE HashesToFiles(_, _)
HashesToFiles(v, m) ==
    IF v = <<>> THEN m
    ELSE LET photo == v[1]
             h == photo.filehash
         IN  HashesToFiles(
                 Tail(v),
                 IF h \in DOMAIN m
                 THEN [ m EXCEPT ![h] = Append(@, photo) ]
                 ELSE [ k \in (DOMAIN m) \cup {h} |-> IF k = h THEN <<photo>> ELSE m[k] ])

\* check_for_duplicates that takes only groups of more than two for duplicates
check_for_duplicates_MoreThanTwo(index_photos) ==
    LET hashes_to_files == HashesToFiles(index_photos, <<>>)
        dups == { h \in DOMAIN hashes_to_files : Len(hashes_to_files[h]) > 2 }
    IN  [ found |-> dups # {},
          groups |-> { [ hash |-> h,
                         paths |-> [ i \in 1..Len(hashes_to_files[h]) |->
                                         hashes_to_files[h][i].filepath ] ] : h \in dups } ]

\* check_for_duplicates: the groups it warns about and the boolean it returns
check_for_duplicates(index_photos) ==
    LET hashes_to_files == HashesToFiles(index_photos, <<>>)
        dups == { h \in DOMAIN hashes_to_files : Len(hashes_to_files[h]) > 1 }
    IN  [ found |-> dups # {},
          groups |-> { [ hash |-> h,
                         paths |-> [ i \in 1..Len(hashes_to_files[h]) |->
                                         hashes_to_files[h][i].filepath ] ] : h \in dups } ]

\* CheckHashesStep that does not count a file it cannot hash
CheckHashesStep_IgnoresError(fs, st, photo) ==
    LET maybe_actual_hash == calc_photo_hash(fs, photo.filepath)
    IN  IF maybe_actual_hash.ok
        THEN IF photo.filehash # maybe_actual_hash.hash
             THEN [ st EXCEPT !.found = TRUE,
                              !.mismatch = Append(@, photo.filepath) ]
             ELSE st
        ELSE [ st EXCEPT !.skipped = Append(@, photo.filepath) ]

\* one round of the loop of check_hashes
CheckHashesStep(fs, st, photo) ==
    LET maybe_actual_hash == calc_photo_hash(fs, photo.filepath)
    IN  IF maybe_actual_hash.ok
        THEN IF photo.filehash # maybe_actual_hash.hash
             THEN [ st EXCEPT !.found = TRUE,
                              !.mismatch = Append(@, photo.filepath) ]
             ELSE st
        ELSE [ st EXCEPT !.found = TRUE, !.skipped = Append(@, photo.filepath) ]

RECURSIVE CheckHashesLoop(_, _, _)
CheckHashesLoop(fs, st, v) ==
    IF v = <<>> THEN st
    ELSE CheckHashesLoop(fs, CheckHashesStep(fs, st, v[1]), Tail(v))

\* check_hashes: the boolean it returns and the paths it warns about
check_hashes(fs, index_photos) ==
    CheckHashesLoop(fs, [ found |-> FALSE, mismatch |-> <<>>, skipped |-> <<>> ],
                    index_photos)

\* one round of the loop of check_photo_naming
CheckNamingStep(fs, user_config, st, photo) ==
    LET maybe_cfn == get_canonical_photo_filename(fs, photo.filepath, user_config)
    IN  IF maybe_cfn.ok
        THEN IF maybe_cfn.name # file_name(photo.filepath)
             THEN [ st EXCEPT !.misnamed = Append(@, photo.filepath) ]
             ELSE st
        ELSE [ st EXCEPT !.found = TRUE, !.errors = Append(@, photo.filepath) ]

RECURSIVE CheckNamingLoop(_, _, _, _)
CheckNamingLoop(fs, user_config, st, v) ==
    IF v = <<>> THEN st
    ELSE CheckNamingLoop(fs, user_config,
                         CheckNamingStep(fs, user_config, st, v[1]), Tail(v))

\* check_photo_naming: the boolean it returns and the paths it warns about
check_photo_naming(fs, index) ==
    CheckNamingLoop(fs, index.user_config,
                    [ found |-> FALSE, misnamed |-> <<>>, errors |-> <<>> ],
                    index.photos)

\* the checks of the check command, in the order they are called
CheckNames == << "duplicates", "hashes", "naming" >>

RunCheck(fs, index, name) ==
    CASE name = "duplicates" -> check_for_duplicates(index.photos).found
      [] name = "hashes"     -> check_hashes(fs, index.photos).found
      [] name = "naming"     -> check_photo_naming(fs, index).found

\* a || b: the right operand is evaluated only when the left one is false
RECURSIVE OrAll_ShortCircuit(_, _, _, _)
OrAll_ShortCircuit(fs, index, st, names) ==
    IF names = <<>> \/ st.problems THEN st
    ELSE LET r == RunCheck(fs, index, names[1])
         IN  OrAll_ShortCircuit(fs, index,
                   [ ran |-> Append(st.ran, names[1]),
                     results |-> Append(st.results, r),
                     problems |-> st.problems \/ r ],
                   Tail(names))

\* a | b: both operands are evaluated
RECURSIVE OrAll(_, _, _, _)
OrAll(fs, index, st, names) ==
    IF names = <<>> THEN st
    ELSE LET r == RunCheck(fs, index, names[1])
         IN  OrAll(fs, index,
                   [ ran |-> Append(st.ran, names[1]),
                     results |-> Append(st.results, r),
                     problems |-> st.problems \/ r ],
                   Tail(names))

NoCheck == [ ran |-> <<>>, results |-> <<>>, problems |-> FALSE ]

\* what the three checks warn about and return
CheckReports(fs, index) ==
    [ duplicates |-> check_for_duplicates(index.photos),
      hashes |-> check_hashes(fs, index.photos),
      naming |-> check_photo_naming(fs, index) ]

NoReports ==
    [ duplicates |-> [ found |-> FALSE, groups |-> {} ],
      hashes |-> [ found |-> FALSE, mismatch |-> <<>>, skipped |-> <<>> ],
      naming |-> [ found |-> FALSE, misnamed |-> <<>>, errors |-> <<>> ] ]

\* check(root_dir, index): which checks ran, what each returned and the
\* boolean returned
check(fs, index) == OrAll(fs, index, NoCheck, CheckNames)

----------------------------------------------------------------------------
(* The rename pass *)

\* The files std::fs::rename may fail for (no permission on the file or its
\* directory, a file held open elsewhere): none, or one of the photos
DeniedSets == { {} } \cup { {p} : p \in AllPaths }

\* One photo of the pass.  refuse_existing: the pass looks whether the target
\* exists before it renames (rename does, rename_photos does not).  denied:
\* the files for which std::fs::rename returns Err; the ? operator then
\* returns that error from the pass.
RenameStep(st, user_config, filepath, dry_run, refuse_existing, denied) ==
    LET c == get_canonical_photo_filename(st.fs, filepath, user_config)
        full_new_path == join(parent(filepath), c.name)
    IN  IF ~c.ok THEN [ st EXCEPT !.failed = Append(@, filepath) ]
        ELSE IF file_name(filepath) = c.name THEN st
        ELSE IF dry_run THEN [ st EXCEPT !.would = Append(@, filepath) ]
        ELSE IF refuse_existing /\ Exists(st.fs, full_new_path)
        THEN [ st EXCEPT !.refused = Append(@, filepath) ]
        ELSE IF filepath \in denied
        THEN [ st EXCEPT !.ok = FALSE, !.err = Append(@, filepath) ]
        ELSE [ st EXCEPT
                 !.fs = FsRename(st.fs, filepath, full_new_path),
                 !.moved = Append(@, <<filepath, full_new_path>>),
                 !.replaced = IF Exists(st.fs, full_new_path)
                              THEN Append(@, full_new_path) ELSE @,
                 !.renamed_photo_count = @ + 1 ]

\* the loop over the photos of the pass; when a step has returned an error
\* the photos after it are abandoned
RECURSIVE RenameLoop(_, _, _, _, _, _)
RenameLoop(st, user_config, filepaths, dry_run, refuse_existing, denied) ==
    IF filepaths = <<>> THEN st
    ELSE IF ~st.ok THEN [ st EXCEPT !.abandoned = filepaths ]
    ELSE RenameLoop(RenameStep(st, user_config, filepaths[1], dry_run,
                               refuse_existing, denied),
                    user_config, Tail(filepaths), dry_run, refuse_existing, denied)

\* ok: the pass returns Ok(renamed_photo_count); err: the file whose rename
\* failed; abandoned: the photos of the pass that were never looked at
NoRename ==
    [ fs |-> <<>>, ok |-> TRUE, renamed_photo_count |-> 0, moved |-> <<>>,
      replaced |-> <<>>, refused |-> <<>>, would |-> <<>>, failed |-> <<>>,
      err |-> <<>>, abandoned |-> <<>> ]

RenamePass(fs, subdir, index, photos, recursive, dry_run, refuse_existing, denied) ==
    RenameLoop([ NoRename EXCEPT !.fs = fs ], index.user_config,
               get_photos_in_subdir(photos, subdir, recursive),
               dry_run, refuse_existing, denied)

\* rename_photos of main.rs: no look at the target before the rename
rename_photos(fs, subdir, index, photos, recursive, dry_run, denied) ==
    RenamePass(fs, subdir, index, photos, recursive, dry_run, FALSE, denied)

\* rename of commands.rs: an existing target is refused
rename(fs, subdir, index, photos, recursive, dry_run, denied) ==
    RenamePass(fs, subdir, index, photos, recursive, dry_run, TRUE, denied)

----------------------------------------------------------------------------
(* The commands *)

NoCmd ==
    [ cmd |-> "none", dry_run |-> FALSE, ok |-> FALSE, wrote |-> FALSE,
      pre_index |-> None, pre_disk |-> <<>>, photos |-> <<>>, upd |-> NoUpdate,
      chk |-> NoCheck, reports |-> NoReports, ren |-> NoRename, impl |-> "",
      canon |-> CanonErr ]

\* The record an observer keeps in the runs where every photo has bytes of
\* its own: first, for the bytes of each photo, the base name the photo had at
\* the update run that first added it; reused, whether an update run has met
\* a path whose index entry was recorded for other bytes than the file there
\* has now.  Recorded is the record after an update run, no dry run, that
\* read index_photos; wrote: it has written the index file, so the photos it
\* found new are added.
Recorded(h, index_photos, fs, wrote) ==
    IF ~IsSome(h) THEN h
    ELSE LET rec == Unwrap(h)
             PathOf(c) == CHOOSE q \in DOMAIN fs : fs[q] = c
         IN  Some([ first |->
                        IF ~wrote THEN rec.first
                        ELSE [ c \in { fs[q] : q \in DOMAIN fs } |->
                                 IF c \in DOMAIN rec.first THEN rec.first[c]
                                 ELSE file_name(PathOf(c)) ],
                    reused |->
                        \/ rec.reused
                        \/ \E i \in 1..Len(index_photos) :
                              /\ Exists(fs, index_photos[i].filepath)
                              /\ calc_photo_hash(fs, index_photos[i].filepath).hash
                                     # index_photos[i].filehash ])

\* before the first command: no photos, no index file
Init ==
    /\ disk = <<>>
    /\ index_file = None
    /\ last = NoCmd
    /\ nchanges = 0
    /\ history = None

\* main, Command::Init: an empty index file is written unless the working
\* directory already lies in a collection
CmdInit(dry_run) ==
    /\ last = NoCmd
    /\ index_file' = IF IsSome(index_file) THEN index_file
                     ELSE Some(WrittenIndex(DefaultIndex))
    /\ last' = [ NoCmd EXCEPT !.cmd = "init", !.dry_run = dry_run, !.ok = TRUE,
                              !.wrote = ~IsSome(index_file),
                              !.pre_index = index_file, !.pre_disk = disk ]
    /\ UNCHANGED <<disk, nchanges, history>>

\* CmdUpdate that writes the index file in dry-run mode too
CmdUpdate_IgnoresDryRun(dry_run) ==
    /\ last = NoCmd
    /\ IsSome(index_file)
    /\ LET index == Unwrap(index_file)
           photos == scan_photo_collection(index.user_config, disk)
       IN  \E order \in Orders(NewPaths(index.photos, photos)) :
             LET u == update(disk, index.photos, photos, order)
                 index_changed == u.ok /\ u.changed
                 wrote == index_changed
             IN  /\ index_file' =
                        IF wrote
                        THEN Some(WrittenIndex([ index EXCEPT !.photos = u.photos ]))
                        ELSE index_file
                 /\ last' = [ NoCmd EXCEPT !.cmd = "update", !.dry_run = dry_run,
                                           !.ok = u.ok, !.wrote = wrote,
                                           !.pre_index = index_file, !.pre_disk = disk,
                                           !.photos = photos, !.upd = u ]
                 /\ history' = IF dry_run THEN history
                                ELSE Recorded(history, index.photos, disk, wrote)
    /\ UNCHANGED <<disk, nchanges>>

\* CmdUpdate that writes the index as update left it when update returns Err
CmdUpdate_WritesOnError(dry_run) ==
    /\ last = NoCmd
    /\ IsSome(index_file)
    /\ LET index == Unwrap(index_file)
           photos == scan_photo_collection(index.user_config, disk)
       IN  \E order \in Orders(NewPaths(index.photos, photos)) :
             LET u == update(disk, index.photos, photos, order)
                 index_changed == u.changed \/ ~u.ok
                 wrote == index_changed /\ ~dry_run
             IN  /\ index_file' =
                        IF wrote
                        THEN Some(WrittenIndex([ index EXCEPT !.photos = u.photos ]))
                        ELSE index_file
                 /\ last' = [ NoCmd EXCEPT !.cmd = "update", !.dry_run = dry_run,
                                           !.ok = u.ok, !.wrote = wrote,
                                           !.pre_index = index_file, !.pre_disk = disk,
                                           !.photos = photos, !.upd = u ]
                 /\ history' = IF dry_run THEN history
                                ELSE Recorded(history, index.photos, disk, wrote)
    /\ UNCHANGED <<disk, nchanges>>

\* main and handle_command, Command::Update
CmdUpdate(dry_run) ==
    /\ last = NoCmd
    /\ IsSome(index_file)
    /\ LET index == Unwrap(index_file)
           photos == scan_photo_collection(index.user_config, disk)
       IN  \E order \in Orders(NewPaths(index.photos, photos)) :
             LET u == update(disk, index.photos, photos, order)
                 index_changed == u.ok /\ u.changed
                 wrote == index_changed /\ ~dry_run
             IN  /\ index_file' =
                        IF wrote
                        THEN Some(WrittenIndex([ index EXCEPT !.photos = u.photos ]))
                        ELSE index_file
                 /\ last' = [ NoCmd EXCEPT !.cmd = "update", !.dry_run = dry_run,
                                           !.ok = u.ok, !.wrote = wrote,
                                           !.pre_index = index_file, !.pre_disk = disk,
                                           !.photos = photos, !.upd = u ]
                 /\ history' = IF dry_run THEN history
                                ELSE Recorded(history, index.photos, disk, wrote)
    /\ UNCHANGED <<disk, nchanges>>

\* main and handle_command, Command::Check: the index is reconciled on a
\* clone (a hashing error ends the command), then the three checks run on the
\* index as read; handle_command drops what they return
CmdCheck(dry_run) ==
    /\ last = NoCmd
    /\ IsSome(index_file)
    /\ LET index == Unwrap(index_file)
           photos == scan_photo_collection(index.user_config, disk)
       IN  \E order \in Orders(NewPaths(index.photos, photos)) :
             LET u == update(disk, index.photos, photos, order)
             IN  last' = [ NoCmd EXCEPT
                             !.cmd = "check", !.dry_run = dry_run, !.ok = u.ok,
                             !.pre_index = index_file, !.pre_disk = disk,
                             !.photos = photos,
                             !.upd = [ NoUpdate EXCEPT !.ok = u.ok, !.changed = u.changed ],
                             !.chk = IF u.ok THEN check(disk, index) ELSE NoCheck,
                             !.reports = IF u.ok THEN CheckReports(disk, index)
                                         ELSE NoReports ]
    /\ UNCHANGED <<disk, index_file, nchanges, history>>

\* main and handle_command, Command::Rename { recursive }, run in directory
\* subdir of the collection.  impl names the pass: rename_photos (main.rs) or
\* rename (commands.rs).  The files renamed before an error stay renamed.
CmdRename(dry_run, subdir, recursive, impl, denied) ==
    /\ last = NoCmd
    /\ IsSome(index_file)
    /\ LET index == Unwrap(index_file)
           photos == scan_photo_collection(index.user_config, disk)
       IN  \E order \in Orders(NewPaths(index.photos, photos)) :
             LET u == update(disk, index.photos, photos, order)
                 r == IF ~u.ok THEN [ NoRename EXCEPT !.fs = disk ]
                      ELSE IF impl = "rename"
                      THEN rename(disk, subdir, index, photos, recursive, dry_run, denied)
                      ELSE rename_photos(disk, subdir, index, photos, recursive, dry_run,
                                         denied)
             IN  /\ disk' = r.fs
                 /\ last' = [ NoCmd EXCEPT
                                !.cmd = "rename", !.dry_run = dry_run,
                                !.ok = u.ok /\ r.ok,
                                !.pre_index = index_file, !.pre_disk = disk,
                                !.photos = photos, !.impl = impl,
                                !.upd = [ NoUpdate EXCEPT !.ok = u.ok,
                                                          !.changed = u.changed ],
                                !.ren = [ r EXCEPT !.fs = <<>> ] ]
    /\ UNCHANGED <<index_file, nchanges, history>>

----------------------------------------------------------------------------
(* The user's changes of the file system between commands *)

AddFile(p, f) ==
    /\ last = NoCmd
    /\ ~Exists(disk, p)
    /\ disk' = PutFile(disk, p, f)
    /\ nchanges < MaxChanges
    /\ nchanges' = nchanges + 1
    /\ UNCHANGED <<index_file, last, history>>

DeleteFile(p) ==
    /\ last = NoCmd
    /\ Exists(disk, p)
    /\ disk' = DropFile(disk, p)
    /\ nchanges < MaxChanges
    /\ nchanges' = nchanges + 1
    /\ UNCHANGED <<index_file, last, history>>

MoveFile(p, q) ==
    /\ last = NoCmd
    /\ Exists(disk, p)
    /\ ~Exists(disk, q)
    /\ disk' = FsRename(disk, p, q)
    /\ nchanges < MaxChanges
    /\ nchanges' = nchanges + 1
    /\ UNCHANGED <<index_file, last, history>>

ModifyFile(p, f) ==
    /\ last = NoCmd
    /\ Exists(disk, p)
    /\ disk[p] # f
    /\ disk' = PutFile(disk, p, f)
    /\ nchanges < MaxChanges
    /\ nchanges' = nchanges + 1
    /\ UNCHANGED <<index_file, last, history>>

FsChange ==
    \/ \E p \in AllPaths, f \in FileRec : AddFile(p, f)
    \/ \E p \in AllPaths : DeleteFile(p)
    \/ \E p \in AllPaths, q \in AllPaths : MoveFile(p, q)
    \/ \E p \in AllPaths, f \in FileRec : ModifyFile(p, f)

\* the process of the command exits; its report is gone
Exit ==
    /\ last # NoCmd
    /\ last' = NoCmd
    /\ UNCHANGED <<disk, index_file, nchanges, history>>

\* init, update and check between changes of the file system
Next ==
    \/ FsChange
    \/ Exit
    \/ \E dry_run \in BOOLEAN : CmdInit(dry_run)
    \/ \E dry_run \in BOOLEAN : CmdUpdate(dry_run)
    \/ \E dry_run \in BOOLEAN : CmdCheck(dry_run)

Spec == Init /\ [][Next]_vars

\* all commands, rename included; the operating system performs every rename
NextRename ==
    \/ (nchanges < MaxChangesRename /\ FsChange)
    \/ Exit
    \/ \E dry_run \in BOOLEAN : CmdInit(dry_run)
    \/ \E dry_run \in BOOLEAN : CmdUpdate(dry_run)
    \/ \E dry_run \in BOOLEAN : CmdCheck(dry_run)
    \/ \E dry_run \in BOOLEAN, subdir \in Dirs, recursive \in BOOLEAN,
          impl \in { "rename_photos", "rename" } :
            CmdRename(dry_run, subdir, recursive, impl, {})

SpecRename == Init /\ [][NextRename]_vars

\* the same, with renames that the operating system may refuse
NextRenameErr ==
    \/ (nchanges < MaxChangesRename /\ FsChange)
    \/ Exit
    \/ \E dry_run \in BOOLEAN : CmdInit(dry_run)
    \/ \E dry_run \in BOOLEAN : CmdUpdate(dry_run)
    \/ \E dry_run \in BOOLEAN : CmdCheck(dry_run)
    \/ \E dry_run \in BOOLEAN, subdir \in Dirs, recursive \in BOOLEAN,
          impl \in { "rename_photos", "rename" }, denied \in DeniedSets :
            CmdRename(dry_run, subdir, recursive, impl, denied)

SpecRenameErr == Init /\ [][NextRenameErr]_vars

\* Photos are added and renamed, each with bytes of its own, and update runs;
\* an observer keeps the record of first names
InitOrigName ==
    /\ disk = <<>>
    /\ index_file = None
    /\ last = NoCmd
    /\ nchanges = 0
    /\ history = Some([ first |-> <<>>, reused |-> FALSE ])

NextOrigName ==
    \/ \E p \in AllPaths, f \in Contents :
          (\A q \in DOMAIN disk : disk[q] # f) /\ AddFile(p, f)
    \/ \E p \in AllPaths, q \in AllPaths : MoveFile(p, q)
    \/ Exit
    \/ \E dry_run \in BOOLEAN : CmdInit(dry_run)
    \/ \E dry_run \in BOOLEAN : CmdUpdate(dry_run)

SpecOrigName == InitOrigName /\ [][NextOrigName]_vars

----------------------------------------------------------------------------
(* The canonical name of one photo, for the naming configurations a user can
   write into the index file *)

\* file_naming_scheme: the default and one with the fields in another order
NamingSchemes ==
    { DefaultUserConfig.file_naming_scheme,
      << "%{type}", "_", "%{fileextension}", "_", "%H%M%S", "_", "%Y%m%d", ".",
         "%{fileextension}" >> }

\* file_types: the default, IMG for jpg alone, and one where the tags IMG and
\* PIC both list jpg
FileTypeMaps ==
    { DefaultUserConfig.file_types,
      << [ tag |-> <<"IMG">>, exts |-> << <<"jpg">> >> ] >>,
      << [ tag |-> <<"IMG">>, exts |-> << <<"jpg">>, <<"jpeg">> >> ],
         [ tag |-> <<"PIC">>, exts |-> << <<"png">>, <<"jpg">> >> ] >> }

NamingConfigs ==
    { [ file_naming_scheme |-> n, file_types |-> t ] :
        n \in NamingSchemes, t \in FileTypeMaps }

\* file names with extensions in both cases, with an extension no type lists
\* and without extension
NamedFiles ==
    { <<"a", ".", "jpg">>, <<"a", ".", "JPG">>, <<"b", ".", "JPEG">>,
      <<"a", ".", "png">>, <<"a", ".", "mp4">>, <<"a", ".", "gif">>, <<"a">> }

\* one photo in a collection with one of the configurations
InitNaming ==
    /\ \E n \in NamedFiles, f \in FileRec \cup { LaterPhoto } :
           disk = PutFile(<<>>, join(RootDir, n), f)
    /\ \E c \in NamingConfigs :
           index_file = Some([ user_config |-> c, photos |-> <<>> ])
    /\ last = NoCmd
    /\ nchanges = 0
    /\ history = None

\* a call get_canonical_photo_filename(root_dir.join(filepath), &index.user_config),
\* as check_photo_naming and the rename pass make it
CanonicalName(filepath) ==
    /\ last = NoCmd
    /\ IsSome(index_file)
    /\ Exists(disk, filepath)
    /\ LET c == get_canonical_photo_filename(disk, filepath,
                                             Unwrap(index_file).user_config)
       IN  last' = [ NoCmd EXCEPT !.cmd = "name", !.ok = c.ok,
                                  !.pre_index = index_file, !.pre_disk = disk,
                                  !.photos = <<filepath>>, !.canon = c ]
    /\ UNCHANGED <<disk, index_file, nchanges, history>>

NextNaming ==
    \/ \E filepath \in DOMAIN disk : CanonicalName(filepath)
    \/ Exit

SpecNaming == InitNaming /\ [][NextNaming]_vars

----------------------------------------------------------------------------
(* Properties of update *)

\* an update command has just returned Ok
UpdateDone == last.cmd = "update" /\ last.ok

\* the index the command read, the entries update found missing and the
\* paths it found new
PreIndex == Unwrap(last.pre_index)
PrePhotos == PreIndex.photos
Missing == MissingPaths(PrePhotos, last.photos)
New == NewPaths(PrePhotos, last.photos)
MissingEntries == { e \in Range(PrePhotos) : e.filepath \in Missing }

\* the hash of the file now at path p
HashNow(p) == calc_photo_hash(disk, p).hash

\* the entries of an index recorded for path p
EntriesFor(v, p) == { i \in 1..Len(v) : v[i].filepath = p }

\* a second run of update on index v, with the same photos and files, finds
\* nothing changed and leaves v as it is
SecondRunIsNoop(v) ==
    \A order \in Orders(NewPaths(v, last.photos)) :
        LET u2 == update(disk, v, last.photos, order)
        IN  u2.ok /\ ~u2.changed /\ u2.photos = v

\* C1: Idempotence of update.  After a successful update, running update again
\* on the resulting index (as left in memory, and as written to the index
\* file) with the same live files returns changed = false and leaves every
\* entry as the first run produced it.
C1_UpdateIdempotent ==
    UpdateDone =>
        /\ SecondRunIsNoop(last.upd.photos)
        /\ SecondRunIsNoop(SortByFilepath(last.upd.photos))

\* a first run that found a rename, with two photos in the index
C1_Witness ==
    /\ UpdateDone
    /\ last.upd.changed
    /\ last.upd.renamed # <<>>
    /\ Len(last.upd.photos) = 2

\* C2: Rename detection.  When an indexed path P with recorded hash H is
\* missing, a new path Q has content hash H, and no other missing entry and
\* no other new file has hash H, a successful update reports the rename
\* (P, Q) and no other rename of P or to Q, reports neither as added or
\* deleted, and leaves exactly one entry for Q, with the orig_filename and
\* filehash of the former entry of P, and no entry for P.
C2_RenameDetected ==
    UpdateDone =>
        \A e \in MissingEntries : \A Q \in New :
            ( /\ HashNow(Q) = e.filehash
              /\ \A e2 \in MissingEntries : e2.filehash = e.filehash => e2 = e
              /\ \A Q2 \in New : HashNow(Q2) = e.filehash => Q2 = Q )
            =>
            LET P == e.filepath
                u == last.upd
            IN  /\ { i \in 1..Len(u.renamed) : u.renamed[i][1] = P \/ u.renamed[i][2] = Q }
                     = { i \in 1..Len(u.renamed) : u.renamed[i] = <<P, Q>> }
                /\ Cardinality({ i \in 1..Len(u.renamed) : u.renamed[i] = <<P, Q>> }) = 1
                /\ {P, Q} \cap (Range(u.added) \cup Range(u.deleted)) = {}
                /\ EntriesFor(u.photos, P) = {}
                /\ Cardinality(EntriesFor(u.photos, Q)) = 1
                /\ \A i \in EntriesFor(u.photos, Q) :
                       /\ u.photos[i].orig_filename = e.orig_filename
                       /\ u.photos[i].filehash = e.filehash

\* a file renamed a second time: its entry carries a name that is neither
\* the old nor the new one
C2_Witness ==
    /\ UpdateDone
    /\ \E e \in MissingEntries : \E Q \in New :
          /\ HashNow(Q) = e.filehash
          /\ \A e2 \in MissingEntries : e2.filehash = e.filehash => e2 = e
          /\ \A Q2 \in New : HashNow(Q2) = e.filehash => Q2 = Q
          /\ e.orig_filename # file_name(e.filepath)
          /\ e.orig_filename # file_name(Q)

\* every new file has a content hash that no missing entry records
NoHashShared == \A Q \in New : \A e \in MissingEntries : HashNow(Q) # e.filehash

\* C3: True deletion and true addition are independent.  When indexed paths
\* are missing and the new paths have content hashes different from the
\* recorded hash of every missing entry, a successful update reports each new
\* path as added, each missing path as deleted and no rename; the index then
\* has no entry for a missing path and, for each new path Q, one fresh entry
\* with orig_filename the base name of Q and filehash the hash computed for Q.
C3_DeletionAndAdditionIndependent ==
    (UpdateDone /\ Missing # {} /\ New # {} /\ NoHashShared) =>
        LET u == last.upd
        IN  /\ Range(u.added) = New /\ Len(u.added) = Cardinality(New)
            /\ Range(u.deleted) = Missing /\ Len(u.deleted) = Cardinality(Missing)
            /\ u.renamed = <<>>
            /\ \A P \in Missing : EntriesFor(u.photos, P) = {}
            /\ \A Q \in New :
                   /\ Cardinality(EntriesFor(u.photos, Q)) = 1
                   /\ \A i \in EntriesFor(u.photos, Q) :
                          u.photos[i] = IndexEntry(Q, file_name(Q), HashNow(Q))

C3_Witness ==
    /\ UpdateDone /\ Missing # {} /\ New # {} /\ NoHashShared
    /\ Len(last.upd.photos) = 2

\* C4: The boolean returned by a successful update is true iff the set of
\* indexed paths differs from the set of live paths, that is iff a path is
\* missing or new; a run of renames only returns true.
C4_ChangedIffPathsDiffer ==
    UpdateDone =>
        /\ last.upd.changed <=>
              { PrePhotos[i].filepath : i \in 1..Len(PrePhotos) } # Range(last.photos)
        /\ last.upd.changed <=> (Missing # {} \/ New # {})

\* a run of renames only
C4_Witness ==
    /\ UpdateDone
    /\ last.upd.renamed # <<>>
    /\ last.upd.added = <<>>
    /\ last.upd.deleted = <<>>
    /\ last.upd.changed

----------------------------------------------------------------------------
(* Properties of the rename pass *)

\* a rename command has run its pass to the end
RenameDone == last.cmd = "rename" /\ last.ok

\* C5: No destructive overwrite.  In every run of the rename pass no file is
\* moved onto a path where a file exists: such a rename is refused, the
\* source file stays where it was, and as many files exist after the pass
\* as before it.
C5_NoDestructiveOverwrite ==
    RenameDone =>
        /\ last.ren.replaced = <<>>
        /\ \A p \in Range(last.ren.refused) :
               Exists(disk, p) /\ disk[p] = last.pre_disk[p]
        /\ Cardinality(DOMAIN disk) = Cardinality(DOMAIN last.pre_disk)

\* the same for the pass of commands.rs alone, which looks at the target
\* before it renames
C5_RenameRefusesExisting ==
    (RenameDone /\ last.impl = "rename") =>
        /\ last.ren.replaced = <<>>
        /\ \A p \in Range(last.ren.refused) :
               Exists(disk, p) /\ disk[p] = last.pre_disk[p]
        /\ Cardinality(DOMAIN disk) = Cardinality(DOMAIN last.pre_disk)

\* the pass of commands.rs has refused a rename
C5_RefusedReached ==
    RenameDone /\ last.impl = "rename" /\ last.ren.refused # <<>>

----------------------------------------------------------------------------
(* Properties of the checks *)

\* a check command has reached and run its checks
CheckDone == last.cmd = "check" /\ last.ok

\* the entries of v recorded with hash h
WithHash(v, h) == { i \in 1..Len(v) : v[i].filehash = h }

\* C6: check_for_duplicates reports exactly the groups of entries with equal
\* filehash that have more than one member, each listing every path recorded
\* with that hash once; it returns true iff two entries have equal filehash;
\* the index and the files are as they were before.
C6_DuplicatesReported ==
    CheckDone =>
        LET v == PrePhotos
            r == last.reports.duplicates
        IN  /\ { g.hash : g \in r.groups } =
                   { v[i].filehash : i \in { k \in 1..Len(v) :
                                               Cardinality(WithHash(v, v[k].filehash)) > 1 } }
            /\ \A g \in r.groups :
                   /\ Range(g.paths) = { v[i].filepath : i \in WithHash(v, g.hash) }
                   /\ Len(g.paths) = Cardinality(WithHash(v, g.hash))
            /\ \A g1 \in r.groups : \A g2 \in r.groups : g1.hash = g2.hash => g1 = g2
            /\ r.found <=>
                   \E i \in 1..Len(v) : \E j \in 1..Len(v) :
                       i # j /\ v[i].filehash = v[j].filehash
            /\ index_file = last.pre_index
            /\ disk = last.pre_disk

\* three entries with hashes H1, H1, H2: one group, for H1
C6_Witness ==
    /\ CheckDone
    /\ Len(PrePhotos) = 3
    /\ Cardinality(last.reports.duplicates.groups) = 1
    /\ Cardinality({ PrePhotos[i].filehash : i \in 1..Len(PrePhotos) }) = 2

\* C7: check_hashes returns true iff, for at least one entry, the file cannot
\* be hashed or its hash differs from the recorded filehash; no entry of the
\* index is changed.
C7_HashDeviationReported ==
    CheckDone =>
        /\ last.reports.hashes.found <=>
               \E e \in Range(PrePhotos) :
                   \/ ~calc_photo_hash(disk, e.filepath).ok
                   \/ calc_photo_hash(disk, e.filepath).hash # e.filehash
        /\ index_file = last.pre_index

\* one file cannot be hashed and nothing else deviates
C7_Witness ==
    /\ CheckDone
    /\ last.reports.hashes.skipped # <<>>
    /\ last.reports.hashes.mismatch = <<>>
    /\ last.reports.hashes.found

\* C8: check_photo_naming returns true whenever the file name of at least one
\* indexed photo differs from its canonical name, and also when the canonical
\* name of a photo cannot be determined.
C8_NamingDeviationReturned ==
    ( /\ CheckDone
      /\ \E e \in Range(PrePhotos) :
             LET c == get_canonical_photo_filename(disk, e.filepath,
                                                   PreIndex.user_config)
             IN  ~c.ok \/ c.name # file_name(e.filepath) )
    => last.reports.naming.found

----------------------------------------------------------------------------
(* Properties of handle_command *)

\* C10: handle_command writes the index file only if the command is update,
\* update returned changed = true and dry-run is off; check and rename
\* reconcile a clone and never write the index file, also when that
\* reconciliation finds the index out of date.
C10_IndexWrittenOnlyOnChange ==
    (last.cmd \in { "update", "check", "rename" }) =>
        /\ (last.wrote \/ index_file # last.pre_index) =>
               (last.cmd = "update" /\ last.upd.changed /\ ~last.dry_run)
        /\ last.cmd \in { "check", "rename" } =>
               (~last.wrote /\ index_file = last.pre_index)

\* a rename command whose reconciliation found the index out of date
C10_Witness ==
    /\ last.cmd = "rename"
    /\ last.ok
    /\ last.upd.changed
    /\ last.ren.renamed_photo_count > 0

----------------------------------------------------------------------------
(* Properties of the dry-run mode *)

\* a command has run in dry-run mode
DryRunDone == last.cmd # "none" /\ last.dry_run

\* C11: With --dry-run set, no command makes a writing change to the file
\* system: init, update, rename and check leave the index file (created or
\* not) and every photo file as they were, and the rename pass returns 0.
C11_DryRunWritesNothing ==
    DryRunDone =>
        /\ ~last.wrote
        /\ index_file = last.pre_index
        /\ disk = last.pre_disk
        /\ last.ren.renamed_photo_count = 0

\* the same for update, rename and check alone, the commands that
\* handle_command runs
C11_DryRunOfHandleCommand ==
    (DryRunDone /\ last.cmd # "init") =>
        /\ ~last.wrote
        /\ index_file = last.pre_index
        /\ disk = last.pre_disk
        /\ last.ren.renamed_photo_count = 0

\* a dry run of rename that found a photo to rename
C11_WouldRenameReached ==
    DryRunDone /\ last.cmd = "rename" /\ last.ren.would # <<>>

----------------------------------------------------------------------------
(* Properties of the passes over many files *)

\* a rename command has reached its pass (the reconciliation before it
\* returned Ok)
RenamePassRan == last.cmd = "rename" /\ last.upd.ok

\* check_hashes has judged every entry: a file that cannot be hashed is
\* listed as skipped, a file with another hash as a mismatch
HashesAllJudged ==
    \A e \in Range(PrePhotos) :
        LET h == calc_photo_hash(disk, e.filepath)
        IN  /\ ~h.ok => e.filepath \in Range(last.reports.hashes.skipped)
            /\ (h.ok /\ h.hash # e.filehash) =>
                   e.filepath \in Range(last.reports.hashes.mismatch)

\* check_photo_naming has judged every entry
NamingAllJudged ==
    \A e \in Range(PrePhotos) :
        LET c == get_canonical_photo_filename(disk, e.filepath, PreIndex.user_config)
        IN  /\ ~c.ok => e.filepath \in Range(last.reports.naming.errors)
            /\ (c.ok /\ c.name # file_name(e.filepath)) =>
                   e.filepath \in Range(last.reports.naming.misnamed)

\* C12: Best-effort batch semantics.  In check_hashes, check_photo_naming and
\* the rename pass an error on one file (no hash, no canonical name, a failed
\* rename) is handled for that file only: the pass is not aborted and every
\* other file of the pass is still processed.
C12_BestEffortPasses ==
    /\ CheckDone => (HashesAllJudged /\ NamingAllJudged)
    /\ RenamePassRan => (last.ren.ok /\ last.ren.abandoned = <<>>)

\* the same for the two checks alone
C12_ChecksBestEffort == CheckDone => (HashesAllJudged /\ NamingAllJudged)

\* the same for the rename pass when the operating system performs every
\* rename
C12_RenameBestEffort ==
    (RenamePassRan /\ last.ren.err = <<>>) => (last.ren.ok /\ last.ren.abandoned = <<>>)

\* a file that cannot be hashed, and a file with another hash after it
C12_ChecksReached ==
    /\ CheckDone
    /\ last.reports.hashes.skipped # <<>>
    /\ last.reports.hashes.mismatch # <<>>
    /\ PathLess(last.reports.hashes.skipped[1], last.reports.hashes.mismatch[1])
    /\ Len(last.reports.naming.errors) > 1

\* a failed rename with photos of the pass after it
C12_AbandonedReached ==
    RenamePassRan /\ ~last.ren.ok /\ last.ren.abandoned # <<>>

----------------------------------------------------------------------------
(* Properties of get_canonical_photo_filename *)

\* get_canonical_photo_filename has returned
NameDone == last.cmd = "name"

\* the photo it was called for, its bytes and the configuration
NamedPath == last.photos[1]
NamedBytes == disk[NamedPath]
NamedConfig == PreIndex.user_config

\* the photo's metadata hold a timestamp
HasTimestamp == NamedBytes # Unreadable /\ IsSome(ExifDateTime(NamedBytes))

\* the type tags of the configuration that list the photo's lower-cased extension
TagsListing ==
    IF ~IsSome(extension(NamedPath)) THEN {}
    ELSE { NamedConfig.file_types[i].tag : i \in
             { k \in 1..Len(NamedConfig.file_types) :
                 to_lowercase(Unwrap(extension(NamedPath)))
                     \in Range(NamedConfig.file_types[k].exts) } }

\* C13: Missing timestamp fails closed.  get_canonical_photo_filename returns
\* an error whenever the photo's metadata hold no local timestamp, whatever
\* the extension and the naming configuration; it returns no name then.
C13_MissingTimestampFailsClosed ==
    (NameDone /\ ~HasTimestamp) => (~last.canon.ok /\ last.canon.name = <<>>)

\* no timestamp, but an extension that one type tag lists, under a
\* configuration other than the default
C13_Witness ==
    /\ NameDone
    /\ NamedBytes = "c3"
    /\ Cardinality(TagsListing) = 1
    /\ NamedConfig # DefaultUserConfig

\* C14: get_canonical_photo_filename returns a name iff exactly one type tag
\* of file_types lists the lower-cased extension: it returns an error when no
\* tag lists it and when more than one tag lists it.
C14_ExactlyOneTag ==
    (NameDone /\ HasTimestamp) => (last.canon.ok <=> Cardinality(TagsListing) = 1)

\* the part of it that holds: no tag, no name
C14_NoTagIsError ==
    (NameDone /\ TagsListing = {}) => ~last.canon.ok

\* an extension that two tags list
C14_AmbiguousReached ==
    NameDone /\ HasTimestamp /\ Cardinality(TagsListing) = 2

\* the date and the time of the photo as the directives %Y%m%d and %H%M%S
\* print them
DateOf(c) ==
    CASE c \in { "c1", "c2" } -> <<"20220507">> [] c = "c4" -> <<"20231231">>

TimeOf(c) ==
    CASE c \in { "c1", "c2" } -> <<"123210">> [] c = "c4" -> <<"235958">>

\* what one token of the template stands for
Expanded(t, tag, ext, c) ==
    CASE t = "%{type}"          -> tag
      [] t = "%{fileextension}" -> IF ext = <<"jpeg">> THEN <<"jpg">> ELSE ext
      [] t = "%Y%m%d"           -> DateOf(c)
      [] t = "%H%M%S"           -> TimeOf(c)
      [] OTHER                  -> <<t>>

RECURSIVE ExpandedTemplate(_, _, _, _)
ExpandedTemplate(s, tag, ext, c) ==
    IF s = <<>> THEN <<>>
    ELSE Expanded(s[1], tag, ext, c) \o ExpandedTemplate(Tail(s), tag, ext, c)

\* the example: IMG for jpg alone, the default template, a file .JPG taken on
\* 2022-05-07 at 12:32:10
IsExample ==
    /\ NamedConfig.file_naming_scheme = DefaultUserConfig.file_naming_scheme
    /\ NamedConfig.file_types = << [ tag |-> <<"IMG">>, exts |-> << <<"jpg">> >> ] >>
    /\ extension(NamedPath) = Some(<<"JPG">>)
    /\ ExifDateTime(NamedBytes) = Some("2022:05:07 12:32:10")

\* C15: Canonical name expansion.  For a photo with a timestamp whose
\* lower-cased extension one type tag lists, the name is the template with the
\* type placeholder replaced by that tag, the extension placeholder by the
\* lower-cased extension (jpeg written jpg, nothing else rewritten) and the
\* date and time directives by the timestamp; no placeholder is left; the
\* example gives 20220507_123210_IMG.jpg.
C15_NameExpansion ==
    (NameDone /\ HasTimestamp /\ Cardinality(TagsListing) = 1) =>
        LET tag == CHOOSE t \in TagsListing : TRUE
            ext == to_lowercase(Unwrap(extension(NamedPath)))
        IN  /\ last.canon.ok
            /\ last.canon.name =
                   ExpandedTemplate(NamedConfig.file_naming_scheme, tag, ext, NamedBytes)
            /\ "%{type}" \notin Range(last.canon.name)
            /\ "%{fileextension}" \notin Range(last.canon.name)
            /\ IsExample =>
                   last.canon.name =
                       << "20220507", "_", "123210", "_", "IMG", ".", "jpg" >>

\* the example
C15_Witness == NameDone /\ HasTimestamp /\ IsExample /\ last.canon.ok

----------------------------------------------------------------------------
(* Further properties of update *)

\* what a run of update reports, whatever the order of the lines
ReportOf(u) ==
    [ added |-> Range(u.added), renamed |-> Range(u.renamed),
      deleted |-> Range(u.deleted) ]

\* every run of update on the same index and the same files, whatever the
\* order in which it visits the new paths, leaves the index and reports what
\* the run that was made did
SameInEveryRun ==
    \A order \in Orders(New) :
        LET u2 == update(disk, PrePhotos, last.photos, order)
        IN  /\ u2.ok
            /\ SortByFilepath(u2.photos) = SortByFilepath(last.upd.photos)
            /\ ReportOf(u2) = ReportOf(last.upd)

\* two new files have the recorded hash of a missing entry
TwoNewShareMissingHash ==
    \E e \in MissingEntries : \E Q1 \in New : \E Q2 \in New :
        Q1 # Q2 /\ HashNow(Q1) = e.filehash /\ HashNow(Q2) = e.filehash

\* C16: Deterministic reconciliation.  For the same index and the same live
\* files two runs of update produce the same resulting index and the same
\* report; when missing entries and new files share a content hash, which
\* new path is bound to which missing entry, and which is reported as added,
\* is the same in every run.
C16_DeterministicReconciliation == UpdateDone => SameInEveryRun

\* the same where no two new files have the hash of a missing entry
C16_DeterministicWithoutSharedHash ==
    (UpdateDone /\ ~TwoNewShareMissingHash) => SameInEveryRun

\* a run where two new files have the hash of the one missing entry
C16_SharedHashReached == UpdateDone /\ TwoNewShareMissingHash

\* an update run has returned Ok and was no dry run: the index file holds
\* what it found
UpdateRecorded == UpdateDone /\ ~last.dry_run /\ IsSome(history)

\* the index entry at the path of each file carries the base name under
\* which the file was first added
OrigFilenameIsFirstName ==
    LET v == Unwrap(index_file).photos
    IN  \A p \in DOMAIN disk :
            /\ EntriesFor(v, p) # {}
            /\ \A i \in EntriesFor(v, p) :
                   v[i].orig_filename = Unwrap(history).first[disk[p]]

\* C17 as stated: orig_filename is preserved across renames.  Starting from an
\* empty index, after any additions, renames (bytes unchanged) and update
\* runs, all files with bytes of their own, the index entry of each file
\* carries as orig_filename the base name the file had at the update run that
\* first added it.
C17_OrigFilenamePreservedAlways == UpdateRecorded => OrigFilenameIsFirstName

\* C17: the same, provided that no update run has met a path with an index
\* entry at which another file than the recorded one lies (a file added at,
\* or renamed onto, a path still recorded for another file).
C17_OrigFilenamePreserved ==
    (UpdateRecorded /\ ~Unwrap(history).reused) => OrigFilenameIsFirstName

\* a file renamed a second time: its entry carries a name that is neither
\* the one before this rename nor the present one
C17_Witness ==
    /\ UpdateRecorded
    /\ ~Unwrap(history).reused
    /\ \E r \in Range(last.upd.renamed) :
          \E i \in EntriesFor(Unwrap(index_file).photos, r[2]) :
             LET e == Unwrap(index_file).photos[i]
             IN  /\ e.orig_filename # file_name(r[1])
                 /\ e.orig_filename # file_name(r[2])
                 /\ e.orig_filename = Unwrap(history).first[disk[r[2]]]

\* no two entries of v have the same filepath
PathsUnique(v) ==
    \A i \in 1..Len(v) : \A j \in 1..Len(v) : v[i].filepath = v[j].filepath => i = j

\* C18: Path uniqueness.  Starting from the empty index created by init,
\* after any changes of the file system and update runs no two entries of
\* the index have the same filepath; update, given an index with unique
\* filepaths, leaves one with unique filepaths.
C18_PathsUnique ==
    /\ IsSome(index_file) => PathsUnique(Unwrap(index_file).photos)
    /\ (UpdateDone /\ PathsUnique(PrePhotos)) => PathsUnique(last.upd.photos)

\* a run that kept an entry and bound another to a new path
C18_Witness ==
    /\ UpdateDone
    /\ last.wrote
    /\ last.upd.renamed # <<>>
    /\ \E e \in Range(PrePhotos) : e.filepath \in Range(last.photos)
    /\ Len(Unwrap(index_file).photos) = 2

\* an update command has run, to the end or to a hashing error
UpdateRan == last.cmd = "update"

\* the paths update logged as added, deleted or renamed (from or to)
Reported(u) ==
    Range(u.added) \cup Range(u.deleted)
        \cup { r[1] : r \in Range(u.renamed) } \cup { r[2] : r \in Range(u.renamed) }

\* C19: Fast path frame condition.  update leaves every entry whose filepath
\* is both in the index and live as it is (filepath, orig_filename, filehash)
\* and calls calc_photo_hash for no such path, also when the bytes of the file
\* are no longer those recorded; the path is not reported as added, deleted
\* or renamed.
C19_FastPathFrame ==
    UpdateRan =>
        \A i \in 1..Len(PrePhotos) :
            LET e == PrePhotos[i]
                u == last.upd
            IN  e.filepath \in Range(last.photos) =>
                    /\ Cardinality(EntriesFor(u.photos, e.filepath)) = 1
                    /\ \A j \in EntriesFor(u.photos, e.filepath) : u.photos[j] = e
                    /\ e.filepath \notin u.hashed
                    /\ e.filepath \notin Reported(u)

\* an entry is kept although the file at its path has other bytes now, in a
\* run that found another path new
C19_Witness ==
    /\ UpdateDone
    /\ last.upd.hashed # {}
    /\ \E e \in Range(PrePhotos) :
          /\ e.filepath \in Range(last.photos)
          /\ calc_photo_hash(disk, e.filepath).ok
          /\ HashNow(e.filepath) # e.filehash

\* C20: When the hashing of a new file fails, update returns the error and
\* the update command ends without writing the index file: the index file is
\* what it was before the command, although missing entries were already
\* taken out of the index in memory and new entries may have been appended.
C20_HashErrorAbortsWithoutWrite ==
    (UpdateRan /\ \E Q \in New : ~calc_photo_hash(disk, Q).ok) =>
        /\ ~last.ok
        /\ ~last.upd.ok
        /\ ~last.wrote
        /\ index_file = last.pre_index

\* the error came after a new entry was appended to an index from which a
\* missing entry had been taken out
C20_Witness ==
    /\ UpdateRan
    /\ ~last.ok
    /\ ~last.dry_run
    /\ \E P \in Missing : EntriesFor(last.upd.photos, P) = {}
    /\ \E Q \in New : EntriesFor(last.upd.photos, Q) # {}

\* C21: After every successful update on an index with unique filepaths,
\* the set of filepaths of the index equals the set of relative paths of the
\* live photos passed in, and the index has as many entries as there are
\* distinct live paths.
C21_IndexMatchesLivePaths ==
    (UpdateDone /\ PathsUnique(PrePhotos)) =>
        LET v == last.upd.photos
        IN  /\ { v[i].filepath : i \in 1..Len(v) } = Range(last.photos)
            /\ Len(v) = Cardinality(Range(last.photos))

\* a run that kept an entry, took one out and pushed one
C21_Witness ==
    /\ UpdateDone
    /\ Missing # {}
    /\ New # {}
    /\ \E e \in Range(PrePhotos) : e.filepath \in Range(last.photos)
    /\ last.upd.deleted # <<>>
    /\ last.upd.added # <<>>

\* how many elements of the sequence s satisfy Test
Count(s, Test(_)) == Cardinality({ i \in 1..Len(s) : Test(s[i]) })

\* C22: update classifies every discrepancy exactly once.  Each missing entry
\* is the old side of one reported rename or is reported deleted once, never
\* both; each new path is the new side of one rename or is reported added
\* once; there are at most min(missing, new) renames; and a new path is
\* bound only to a missing entry whose recorded hash is the hash computed for
\* the new path.
C22_ClassifiedExactlyOnce ==
    (UpdateDone /\ PathsUnique(PrePhotos)) =>
        LET u == last.upd
        IN  /\ \A P \in Missing :
                   LET From(r) == r[1] = P
                       Is(d) == d = P
                   IN  Count(u.renamed, From) + Count(u.deleted, Is) = 1
            /\ \A Q \in New :
                   LET To(r) == r[2] = Q
                       Is(a) == a = Q
                   IN  Count(u.renamed, To) + Count(u.added, Is) = 1
            /\ \A r \in Range(u.renamed) : r[1] \in Missing /\ r[2] \in New
            /\ Range(u.deleted) \subseteq Missing
            /\ Range(u.added) \subseteq New
            /\ Len(u.renamed) <= Cardinality(Missing)
            /\ Len(u.renamed) <= Cardinality(New)
            /\ \A r \in Range(u.renamed) :
                   \E e \in MissingEntries :
                       e.filepath = r[1] /\ e.filehash = HashNow(r[2])

\* two missing entries with one hash and one new file with it: one entry is
\* bound to the file, the other reported deleted
C22_Witness ==
    /\ UpdateDone
    /\ Cardinality(Missing) = 2
    /\ Cardinality(New) = 1
    /\ Len(last.upd.renamed) = 1
    /\ Len(last.upd.deleted) = 1
    /\ \A e \in MissingEntries : \A Q \in New : e.filehash = HashNow(Q)

=============================================================================
